---------------------------- MODULE Spec2Model ----------------------------
(***************************************************************************)
(* The animated tree: the Foliage component (src/unnamed/part_000) and the *)
(* Ornaments component (src/components/Ornaments.tsx), driven by the       *)
(* rendering host's per-frame callback.                                    *)
(*                                                                         *)
(* Units.  Numbers of the program are JavaScript doubles; the model keeps  *)
(* them exact where it can and on a fixed-point grid elsewhere:            *)
(*   time, delta          half-seconds (delta = 3 is 1.5 s)                *)
(*   foliage progress     exact rationals [n, d] (the values reached are   *)
(*                        dyadic, so the double arithmetic is exact too)   *)
(*   foliage positions    1/1000 of a unit                                 *)
(*   ornament positions   1/50000 of a unit (0.5 is 25000, 0.002 is 100),  *)
(*                        rounded down after every interpolation, as the   *)
(*                        Float32Array of instance matrices rounds         *)
(*   Math.sin             hundredths, tabulated on half-radian arguments   *)
(*   ornament scale       1/100000                                         *)
(*   Euler angles         1/40 radian                                      *)
(*   shader floats        1/1000, rounded down                             *)
(***************************************************************************)
EXTENDS Integers, Sequences, FiniteSets

VARIABLES
    \* ---- the rendering host
    mode,             \* the TreeMode prop both components read
    elapsedTime,      \* state.clock.elapsedTime
    frames,           \* number of frames rendered so far
    lastDelta,        \* delta of the frame just rendered, -1 after any other step
    \* ---- Foliage
    fCount,           \* the count prop of Foliage
    chaosPositions,   \* Float32Array(count * 3)
    targetPositions,  \* Float32Array(count * 3)
    randoms,          \* Float32Array(count)
    meshRef,          \* meshRef.current is set
    progressRef,      \* progressRef.current
    uTime,            \* uniforms.uTime.value
    uProgress,        \* uniforms.uProgress.value
    \* ---- Ornaments
    oCount,           \* the count prop of Ornaments
    rndLog,           \* the type draws of the generation loop, in order
    ballsData, giftsData, lightsData,
    ballsRef, giftsRef, lightsRef,      \* ref.current is set
    ballsMesh, giftsMesh, lightsMesh,   \* the three InstancedMesh objects
    ornError,         \* an exception left the Ornaments component
    \* ---- vertex shader, evaluated on its own
    vsIn,             \* the uniform / attribute values handed to main()
    vsOut             \* easedProgress for them, <<>> until computed

hostVars    == <<mode, elapsedTime, frames, lastDelta>>
foliageData == <<fCount, chaosPositions, targetPositions, randoms>>
foliageVars == <<fCount, chaosPositions, targetPositions, randoms,
                 meshRef, progressRef, uTime, uProgress>>
ornData     == <<oCount, rndLog, ballsData, giftsData, lightsData>>
ornRefs     == <<ballsRef, giftsRef, lightsRef>>
ornMeshes   == <<ballsMesh, giftsMesh, lightsMesh>>
ornVars     == <<oCount, rndLog, ballsData, giftsData, lightsData,
                 ballsRef, giftsRef, lightsRef,
                 ballsMesh, giftsMesh, lightsMesh, ornError>>
shaderVars  == <<vsIn, vsOut>>
vars        == <<hostVars, foliageVars, ornVars, shaderVars>>

----------------------------------------------------------------------------
(* Bounds of the model *)

MaxCount == 3

MaxFrames == 3

\* frame deltas the host may deliver, in half-seconds: 0 s, 0.5 s, 1 s, 1.5 s
Deltas == {0, 1, 2, 3}

\* the deltas of the scene that holds both components: 0 s and 1 s
SceneDeltas == {0, 2}

NULL == "null"

FORMED == "FORMED"

SCATTERED == "SCATTERED"

TreeMode == {FORMED, SCATTERED}

----------------------------------------------------------------------------
(* Arithmetic *)

Abs(x) == IF x < 0 THEN -x ELSE x

RECURSIVE GCD(_, _)
GCD(a, b) == IF b = 0 THEN a ELSE GCD(b, a % b)

\* the rational n/d in lowest terms with a positive denominator
Rat(n, d) ==
    LET g == GCD(Abs(n), Abs(d))
        s == IF d < 0 THEN -1 ELSE 1
    IN  [n |-> (s * n) \div g, d |-> (s * d) \div g]

RatLe(x, y) == x.n * y.d <= y.n * x.d

RatLt(x, y) == x.n * y.d < y.n * x.d

\* |x - t| for an integer t
RatDist(x, t) == Rat(Abs(t * x.d - x.n), x.d)

\* THREE.MathUtils.lerp(x, y, t) = (1 - t) * x + t * y, for x = x.n/x.d,
\* an integer y and t = t.n/t.d
MathUtilsLerp(x, y, t) ==
    Rat((t.d - t.n) * x.n + t.n * y * x.d, t.d * x.d)

\* Math.sin(h / 2) in hundredths, h >= 0 half-radians
SinTable ==
    << 0, 48, 84, 100, 91, 60, 14, -35, -76, -98, -96, -71, -28, 22, 66, 94,
       99, 80, 41, -8, -54, -88, -100, -88, -54, -7, 42, 80, 99, 93, 65, 21,
       -29, -71, -96, -98, -75, -34, 15, 61, 91, 100, 84, 47, -1, -49, -85,
       -100, -91, -59, -13, 36, 76, 98, 96, 70, 27, -22, -66, -94, -99, -79,
       -40, 8, 55, 88, 100, 87, 53, 6, -43, -81, -99, -93, -64, -20, 30, 72,
       96, 97, 75, 33, -16, -61, -92, -100, -83, -46, 2, 49, 85, 100, 90, 58,
       12, -37, -77, -98, -95, -69, -26, 23, 67, 94, 99, 79, 40, -9, -56,
       -89, -100, -87, -52, -5, 44, 81, 99, 93, 64, 19, -30 >>

\* Math.sin of h half-radians, in hundredths (sin is odd)
Sin(h) == IF h >= 0 THEN SinTable[h + 1] ELSE -SinTable[(-h) + 1]

----------------------------------------------------------------------------
(* Foliage: point generation (useMemo) *)

\* cos and sin of the golden angle 2 * PI * goldenRatio * i, in thousandths
GoldenCos == <<1000, -737, 87, 608, -985, 844, -260, -461>>

GoldenSin == <<0, -675, 996, -794, 174, 537, -966, 887>>

\* Outcomes of the four Math.random() calls of one loop iteration: the chaos
\* position they give (radius 25 * cbrt(random) about (0, 5, 0)) and aRandom.
FoliageDraws ==
    { [chaos |-> <<0, 5000, 0>>,      rnd |-> 0],
      [chaos |-> <<25000, 5000, 0>>,  rnd |-> 999],
      [chaos |-> <<0, 5000, -12500>>, rnd |-> 500] }

\* target[i*3 .. i*3+2] of point i (0-based) among count points:
\* height 12, maxRadius 5
FoliageTarget(i, count) ==
    LET y == (i * 12 * 1000) \div count
        \* currentRadius = maxRadius * (1 - yNorm), in thousandths
        currentRadius == (5 * 1000 * (count - i)) \div count
    IN  << (GoldenCos[i + 1] * currentRadius) \div 1000,
           y,
           (GoldenSin[i + 1] * currentRadius) \div 1000 >>

RECURSIVE Flatten(_)
Flatten(vs) == IF vs = <<>> THEN <<>> ELSE Head(vs) \o Flatten(Tail(vs))

\* the three arrays the useMemo returns for `count` points and the draws ds
FoliageGenerate(count, ds) ==
    [chaos  |-> Flatten([i \in 1..count |-> ds[i].chaos]),
     target |-> Flatten([i \in 1..count |-> FoliageTarget(i - 1, count)]),
     rnd    |-> [i \in 1..count |-> ds[i].rnd]]

\* useRef(null), useRef(0), the two useMemo calls
FoliageConstruct(count, ds) ==
    LET g == FoliageGenerate(count, ds)
    IN  /\ fCount = count
        /\ chaosPositions = g.chaos
        /\ targetPositions = g.target
        /\ randoms = g.rnd
        /\ meshRef = FALSE
        /\ progressRef = Rat(0, 1)
        /\ uTime = 0
        /\ uProgress = Rat(0, 1)

\* React attaches the <points> object to meshRef when it commits the component
FoliageAttach ==
    /\ ~meshRef
    /\ meshRef' = TRUE
    /\ lastDelta' = -1
    /\ UNCHANGED <<mode, elapsedTime, frames>>
    /\ UNCHANGED <<foliageData, progressRef, uTime, uProgress>>
    /\ UNCHANGED <<ornVars, shaderVars>>

\* the useFrame callback of Foliage, called with the clock's time and delta
FoliageUseFrameUnguarded(time, delta) ==
    LET target == IF mode = FORMED THEN 1 ELSE 0
        p == MathUtilsLerp(progressRef, target, Rat(delta * 3, 4))
    IN  /\ uTime' = time
        /\ progressRef' = p
        /\ uProgress' = p
        /\ UNCHANGED <<foliageData, meshRef>>

FoliageUseFrame(time, delta) ==
    IF meshRef
    THEN LET target == IF mode = FORMED THEN 1 ELSE 0
             \* delta * 1.5, delta in half-seconds
             p == MathUtilsLerp(progressRef, target, Rat(delta * 3, 4))
         IN  /\ uTime' = time
             /\ progressRef' = p
             /\ uProgress' = p
             /\ UNCHANGED <<foliageData, meshRef>>
    ELSE UNCHANGED foliageVars

----------------------------------------------------------------------------
(* The host *)

\* the host re-renders with the other mode; the next frame reads it
SetMode ==
    /\ mode' = IF mode = FORMED THEN SCATTERED ELSE FORMED
    /\ lastDelta' = -1
    /\ UNCHANGED <<elapsedTime, frames>>
    /\ UNCHANGED <<foliageVars, ornVars, shaderVars>>

\* the clock's part of one frame
Tick(delta) ==
    /\ elapsedTime' = elapsedTime + delta
    /\ frames' = frames + 1
    /\ lastDelta' = delta
    /\ UNCHANGED mode

----------------------------------------------------------------------------
(* Ornaments: instance generation (useMemo) *)

\* the type of an instance from its draw rnd = Math.random(), in hundredths
OrnamentTypeShifted(rnd) ==
    IF rnd >= 90 THEN "light" ELSE IF rnd >= 80 THEN "gift" ELSE "ball"

OrnamentType(rnd) ==
    IF rnd > 90 THEN "light" ELSE IF rnd > 80 THEN "gift" ELSE "ball"

\* type draws considered: both thresholds and one value past each
RndDraws == {80, 90, 95}

\* Outcomes of the remaining Math.random() calls of one loop iteration, as
\* the values they give.  targetPos has y = yNorm * 11 + 0.5 and radius
\* 4.5 * (1 - yNorm) + [0, 0.5); chaosPos lies 15 to 30 from (0, 5, 0);
\* scale is 0.2 + [0, 0.25); speed is 0.5 + [0, 1.5), here in halves;
\* the colour is one of the palette.
OrnamentSeeds ==
    { [targetPos |-> <<225000, 25000, 0>>,       \* (4.5, 0.5, 0)
       chaosPos  |-> <<900000, 250000, 0>>,      \* (18, 5, 0)
       scale |-> 30000, speed |-> 2, color |-> "#4B9CD3",
       rotationOffset |-> <<0, 0, 0>>],
      [targetPos |-> <<0, 300000, -125000>>,     \* (0, 6, -2.5)
       chaosPos  |-> <<0, 250000, 1000000>>,     \* (0, 5, 20)
       scale |-> 25000, speed |-> 3, color |-> "#e2e8f0",
       rotationOffset |-> <<40, 80, 0>>] }

\* the first seed with every type draw, the second with a gift's
OrnamentDraws ==
    {d \in [rnd : RndDraws, seed : OrnamentSeeds] :
        d.seed.speed = 2 \/ d.rnd = 90}

\* the InstanceData of one loop iteration
InstanceData(draw) ==
    LET type == OrnamentType(draw.rnd)
    IN  [chaosPos  |-> draw.seed.chaosPos,
         targetPos |-> draw.seed.targetPos,
         type      |-> type,
         color     |-> IF type = "light" THEN "#e0f2fe" ELSE draw.seed.color,
         scale     |-> IF type = "light" THEN 15000 ELSE draw.seed.scale,
         speed     |-> draw.seed.speed,
         rotationOffset |-> draw.seed.rotationOffset]

IsBall(d) == d.type = "ball"

IsGift(d) == d.type = "gift"

IsOther(d) == ~(d.type = "ball") /\ ~(d.type = "gift")

\* the three lists the useMemo returns
OrnamentsGenerate(count, ds) ==
    LET all == [i \in 1..count |-> InstanceData(ds[i])]
    IN  [ballsData  |-> SelectSeq(all, IsBall),
         giftsData  |-> SelectSeq(all, IsGift),
         lightsData |-> SelectSeq(all, IsOther)]

\* the matrix of an instance as position, rotation and scale; rotation is
\* Euler angles (a about x, b about y) or the facing lookAt gives from the
\* point (a, b) of the xz-plane
Identity ==
    [position |-> <<0, 0, 0>>,
     rotation |-> [kind |-> "euler", a |-> 0, b |-> 0],
     scale    |-> 100000]

\* new THREE.InstancedMesh(undefined, undefined, n)
InstancedMesh(n) ==
    [instanceMatrix    |-> [i \in 1..n |-> Identity],
     matrixNeedsUpdate |-> FALSE,
     hasInstanceColor  |-> FALSE,    \* instanceColor is null until setColorAt
     instanceColor     |-> <<>>,
     colorNeedsUpdate  |-> FALSE]

\* the three useRef(null), the useMemo, and the three <instancedMesh> elements
OrnamentsConstruct(count, ds) ==
    LET g == OrnamentsGenerate(count, ds)
    IN  /\ oCount = count
        /\ rndLog = [i \in 1..count |-> ds[i].rnd]
        /\ ballsData = g.ballsData
        /\ giftsData = g.giftsData
        /\ lightsData = g.lightsData
        /\ ballsRef = FALSE /\ giftsRef = FALSE /\ lightsRef = FALSE
        /\ ballsMesh = InstancedMesh(Len(g.ballsData))
        /\ giftsMesh = InstancedMesh(Len(g.giftsData))
        /\ lightsMesh = InstancedMesh(Len(g.lightsData))
        /\ ornError = FALSE

----------------------------------------------------------------------------
(* Ornaments: the creation-time colour write (useLayoutEffect) *)

\* One entry of the effect's forEach: setColorAt(i, d.color) for every d of
\* data (the first call creates instanceColor), then
\* instanceColor.needsUpdate = true, a TypeError when instanceColor is still
\* null.  Gives the mesh afterwards and whether the entry threw.
ColourWrite(ref, mesh, data) ==
    IF ~ref
    THEN [mesh |-> mesh, threw |-> FALSE]
    ELSE LET written ==
                 IF Len(data) = 0
                 THEN mesh
                 ELSE [mesh EXCEPT
                          !.hasInstanceColor = TRUE,
                          !.instanceColor = [i \in 1..Len(data) |-> data[i].color]]
         IN  IF ~written.hasInstanceColor
             THEN [mesh |-> written, threw |-> TRUE]
             ELSE [mesh |-> [written EXCEPT !.colorNeedsUpdate = TRUE],
                   threw |-> FALSE]

\* The effect's body: balls, then gifts, then lights; an exception ends it.
LayoutEffect(bRef, gRef, lRef) ==
    LET b == ColourWrite(bRef, ballsMesh, ballsData)
        g == IF b.threw
             THEN [mesh |-> giftsMesh, threw |-> TRUE]
             ELSE ColourWrite(gRef, giftsMesh, giftsData)
        l == IF g.threw
             THEN [mesh |-> lightsMesh, threw |-> TRUE]
             ELSE ColourWrite(lRef, lightsMesh, lightsData)
    IN  /\ ballsMesh' = b.mesh
        /\ giftsMesh' = g.mesh
        /\ lightsMesh' = l.mesh
        /\ ornError' = l.threw

\* React commits the component: it attaches the three meshes to their refs
\* and then runs the layout effect.
OrnamentsCommit ==
    /\ ~ballsRef /\ ~giftsRef /\ ~lightsRef
    /\ ballsRef' = TRUE /\ giftsRef' = TRUE /\ lightsRef' = TRUE
    /\ LayoutEffect(TRUE, TRUE, TRUE)
    /\ lastDelta' = -1
    /\ UNCHANGED <<mode, elapsedTime, frames>>
    /\ UNCHANGED <<ornData, foliageVars, shaderVars>>

----------------------------------------------------------------------------
(* Ornaments: the per-frame update (useFrame) *)

\* Vector3.lerp: this += (v - this) * alpha, with alpha = num / 4
Vector3Lerp(this, v, num) ==
    [k \in 1..3 |-> this[k] + (((v[k] - this[k]) * num) \div 4)]

\* Vector3.distanceTo(v) < lim, for lim * lim * 3 within the integers
DistanceToLt(this, v, lim) ==
    /\ \A k \in 1..3 : Abs(this[k] - v[k]) < lim
    /\ (this[1] - v[1]) * (this[1] - v[1])
         + (this[2] - v[2]) * (this[2] - v[2])
         + (this[3] - v[3]) * (this[3] - v[3]) < lim * lim

\* half-radians in a coordinate that is a multiple of 0.5
HalfRadians(x) == x \div 25000

\* dummy.position after dummy.position.lerp(dest, step)
LerpedPosition(d, m, isFormed, delta) ==
    LET dest == IF isFormed THEN d.targetPos ELSE d.chaosPos
        \* step = delta * d.speed: half-seconds times halves, in quarters
        step == delta * d.speed
    IN  Vector3Lerp(m.position, dest, step)

BobbedPositionAnywhere(d, lerped, isFormed, time) ==
    [lerped EXCEPT ![2] = @ + Sin(2 * time + HalfRadians(d.chaosPos[1]))]

\* dummy.position after the idle bobbing:
\* position.y += Math.sin(time * 2 + d.chaosPos.x) * 0.002
BobbedPosition(d, lerped, isFormed, time) ==
    IF isFormed /\ DistanceToLt(lerped, d.targetPos, 25000)
    THEN [lerped EXCEPT ![2] = @ + Sin(2 * time + HalfRadians(d.chaosPos[1]))]
    ELSE lerped

\* the body of data.forEach in updateMesh: the matrix written for instance d
\* whose matrix was m
UpdateInstance(d, m, isFormed, time, delta) ==
    LET position ==
            BobbedPosition(d, LerpedPosition(d, m, isFormed, delta),
                           isFormed, time)
        rotation ==
            IF d.type = "gift"
            THEN \* rotation.x += delta * 0.5; rotation.y += delta * 0.2
                 [kind |-> "euler",
                  a |-> m.rotation.a + 10 * delta,
                  b |-> m.rotation.b + 4 * delta]
            ELSE \* lookAt(0, position.y, 0)
                 [kind |-> "lookAt", a |-> position[1], b |-> position[3]]
        \* pulse = 1 + Math.sin(time * 5 + d.chaosPos.y) * 0.3
        pulse == 1000 + 3 * Sin(5 * time + HalfRadians(d.chaosPos[2]))
        scale ==
            IF d.type = "light"
            THEN (d.scale * pulse) \div 1000
            ELSE d.scale
    IN  [position |-> position, rotation |-> rotation, scale |-> scale]

UpdateMeshRecolouring(ref, mesh, data, isFormed, time, delta) ==
    IF ~ref
    THEN mesh
    ELSE [mesh EXCEPT
             !.instanceMatrix =
                 [i \in 1..Len(data) |->
                     UpdateInstance(data[i], mesh.instanceMatrix[i],
                                    isFormed, time, delta)],
             !.matrixNeedsUpdate = IF Len(data) > 0 THEN TRUE ELSE @,
             !.hasInstanceColor = IF Len(data) > 0 THEN TRUE ELSE @,
             !.instanceColor = [i \in 1..Len(data) |-> "#ffffff"]]

\* updateMesh(ref, data): the mesh afterwards
UpdateMesh(ref, mesh, data, isFormed, time, delta) ==
    IF ~ref
    THEN mesh
    ELSE [mesh EXCEPT
             !.instanceMatrix =
                 [i \in 1..Len(data) |->
                     UpdateInstance(data[i], mesh.instanceMatrix[i],
                                    isFormed, time, delta)],
             !.matrixNeedsUpdate = IF Len(data) > 0 THEN TRUE ELSE @]

\* the useFrame callback of Ornaments; no callback is left once an exception
\* has unmounted the component
OrnamentsUseFrame(time, delta) ==
    LET isFormed == mode = FORMED
    IN  /\ IF ornError
           THEN UNCHANGED ornMeshes
           ELSE /\ ballsMesh' = UpdateMesh(ballsRef, ballsMesh, ballsData,
                                           isFormed, time, delta)
                /\ giftsMesh' = UpdateMesh(giftsRef, giftsMesh, giftsData,
                                           isFormed, time, delta)
                /\ lightsMesh' = UpdateMesh(lightsRef, lightsMesh, lightsData,
                                            isFormed, time, delta)
        /\ UNCHANGED <<ornData, ornRefs, ornError>>

----------------------------------------------------------------------------
(* Frames *)

\* one frame of a scene that holds Foliage only
FoliageFrame ==
    \E delta \in Deltas :
        /\ frames < MaxFrames
        /\ Tick(delta)
        /\ FoliageUseFrame(elapsedTime + delta, delta)
        /\ UNCHANGED <<ornVars, shaderVars>>

\* one frame of a scene that holds Ornaments only
OrnamentsFrame ==
    \E delta \in Deltas :
        /\ frames < MaxFrames
        /\ Tick(delta)
        /\ OrnamentsUseFrame(elapsedTime + delta, delta)
        /\ UNCHANGED <<foliageVars, shaderVars>>

\* one frame of a scene that holds both: the host calls every subscriber
\* with the same clock and delta
SceneFrame ==
    \E delta \in SceneDeltas :
        /\ frames < MaxFrames
        /\ Tick(delta)
        /\ FoliageUseFrame(elapsedTime + delta, delta)
        /\ OrnamentsUseFrame(elapsedTime + delta, delta)
        /\ UNCHANGED shaderVars

----------------------------------------------------------------------------
(* Specifications *)

HostInit ==
    /\ mode \in TreeMode
    /\ elapsedTime = 0
    /\ frames = 0
    /\ lastDelta = -1

\* no shader evaluation is in hand
ShaderIdle == vsIn = NULL /\ vsOut = <<>>

FoliageInit(draws) ==
    \E count \in 0..MaxCount :
        \E ds \in [1..count -> draws] : FoliageConstruct(count, ds)

OrnamentsInit(draws) ==
    \E count \in 0..MaxCount :
        \E ds \in [1..count -> draws] : OrnamentsConstruct(count, ds)

\* a scene that holds Foliage only
InitFoliage ==
    HostInit /\ FoliageInit(FoliageDraws) /\ OrnamentsConstruct(0, <<>>)
    /\ ShaderIdle

NextFoliage == SetMode \/ FoliageAttach \/ FoliageFrame

SpecFoliage == InitFoliage /\ [][NextFoliage]_vars

\* a scene that holds Ornaments only
InitOrnaments ==
    HostInit /\ OrnamentsInit(OrnamentDraws) /\ FoliageConstruct(0, <<>>)
    /\ ShaderIdle

NextOrnaments == SetMode \/ OrnamentsCommit \/ OrnamentsFrame

SpecOrnaments == InitOrnaments /\ [][NextOrnaments]_vars

\* a scene that holds both components; their draws are one value of
\* aRandom and every type draw with the first seed
SceneFoliageDraws == {d \in FoliageDraws : d.rnd = 500}

SceneOrnamentDraws == {d \in OrnamentDraws : d.seed.speed = 2}

Init ==
    HostInit /\ FoliageInit(SceneFoliageDraws)
    /\ OrnamentsInit(SceneOrnamentDraws) /\ ShaderIdle

Next == SetMode \/ FoliageAttach \/ OrnamentsCommit \/ SceneFrame

Spec == Init /\ [][Next]_vars

----------------------------------------------------------------------------
(* The scatter-then-form scenario: Foliage alone, scattered for 5 s and    *)
(* then formed for 5 s, in frames of 0.5 s, 1 s or 1.5 s                   *)

\* a frame of the scenario: it stays within the 5 s (10 half-seconds) of
\* the mode it is in
ScenarioFrame ==
    \E delta \in Deltas \ {0} :
        /\ meshRef
        /\ elapsedTime + delta <= (IF mode = SCATTERED THEN 10 ELSE 20)
        /\ Tick(delta)
        /\ FoliageUseFrame(elapsedTime + delta, delta)
        /\ UNCHANGED <<ornVars, shaderVars>>

\* the host switches to formed after 5 s of scattered
ScenarioSwitch ==
    /\ mode = SCATTERED
    /\ elapsedTime = 10
    /\ SetMode

InitScenario == InitFoliage /\ mode = SCATTERED

NextScenario == FoliageAttach \/ ScenarioFrame \/ ScenarioSwitch

SpecScenario == InitScenario /\ [][NextScenario]_vars

----------------------------------------------------------------------------
(* The vertex shader's per-point progress, in thousandths *)

Clamp(x, lo, hi) == IF x < lo THEN lo ELSE IF x > hi THEN hi ELSE x

\* cubicInOut(t) = t < 0.5 ? 4 t^3 : 1 - pow(-2 t + 2, 3) / 2
CubicInOut(t) ==
    IF t < 500
    THEN (4 * t * t * t) \div 1000000
    ELSE 1000 - (((2000 - 2 * t) * (2000 - 2 * t) * (2000 - 2 * t))
                    \div 2000000)

LocalProgressUnclamped(uP, aRandom) == (12 * uP - 2 * aRandom) \div 10

\* localProgress = clamp(uProgress * 1.2 - aRandom * 0.2, 0.0, 1.0)
LocalProgress(uP, aRandom) ==
    Clamp((12 * uP - 2 * aRandom) \div 10, 0, 1000)

\* easedProgress of main()
EasedProgress(uP, aRandom) == CubicInOut(LocalProgress(uP, aRandom))

\* values of the uProgress uniform, some outside [0, 1]
UProgressGrid ==
    {-250, 0, 1, 100, 167, 250, 400, 500, 583, 600, 750, 900, 999, 1000, 1500}

\* values of the aRandom attribute, in [0, 1)
ARandomGrid == {0, 250, 500, 999}

\* main() for two values of uProgress and two points
VertexShader ==
    /\ vsOut = <<>>
    /\ vsOut' = [i \in 1..2 |-> [j \in 1..2 |->
                    EasedProgress(vsIn.uProgress[i], vsIn.aRandom[j])]]
    /\ UNCHANGED <<hostVars, foliageVars, ornVars, vsIn>>

InitShader ==
    /\ HostInit
    /\ FoliageConstruct(0, <<>>)
    /\ OrnamentsConstruct(0, <<>>)
    /\ vsIn \in [uProgress : UProgressGrid \X UProgressGrid,
                 aRandom : ARandomGrid \X ARandomGrid]
    /\ vsOut = <<>>

NextShader == VertexShader

SpecShader == InitShader /\ [][NextShader]_vars

----------------------------------------------------------------------------
(* Claims about Foliage *)

\* the value the mode steers progress to
ModeTarget == IF mode = FORMED THEN 1 ELSE 0

\* a step that is a frame, and the delta it was called with
IsFrame == frames' = frames + 1

FrameDelta == elapsedTime' - elapsedTime

\* C1: in every frame with a positive delta and the mesh handle present,
\* the residual |target - progress| after the frame is strictly smaller
\* than before it, whatever the delta and the progress (stated for the
\* progress values that have a residual left to shrink).
C1_ResidualStrictlyDecreases ==
    [][(/\ IsFrame /\ FrameDelta > 0 /\ meshRef
        /\ RatLt(Rat(0, 1), RatDist(progressRef, ModeTarget)))
          => RatLt(RatDist(progressRef', ModeTarget),
                   RatDist(progressRef, ModeTarget))]_vars

\* C2: from progress 0, whatever the deltas and the mode switches, progress
\* and the uProgress uniform stay within [0, 1].
C2_ProgressWithinUnitInterval ==
    /\ RatLe(Rat(0, 1), progressRef) /\ RatLe(progressRef, Rat(1, 1))
    /\ RatLe(Rat(0, 1), uProgress) /\ RatLe(uProgress, Rat(1, 1))

\* C8: with the mesh handle present, after frames totalling 5 s in
\* scattered mode and then frames totalling 5 s in formed mode, the
\* uProgress uniform is within epsilon (here 1/100) of 1.
C8_ScenarioEndsNearOne ==
    (mode = FORMED /\ elapsedTime = 20)
        => RatLe(RatDist(uProgress, 1), Rat(1, 100))

\* C10: the per-point eased progress is 0 at uProgress = 0 and 1 at
\* uProgress = 1 for every aRandom in [0, 1), does not decrease as uProgress
\* grows, and at equal uProgress is never larger for the larger aRandom.
C10_PerPointProgress ==
    vsOut # <<>> =>
        \A i \in 1..2 : \A j \in 1..2 :
            /\ vsIn.uProgress[i] = 0 => vsOut[i][j] = 0
            /\ vsIn.uProgress[i] = 1000 => vsOut[i][j] = 1000
            /\ vsIn.uProgress[1] <= vsIn.uProgress[2]
                   => vsOut[1][j] <= vsOut[2][j]
            /\ vsIn.aRandom[1] <= vsIn.aRandom[2]
                   => vsOut[i][1] >= vsOut[i][2]

\* C10's case: a point part of the way, ahead of a point with a larger
\* aRandom and behind itself at full progress
C10_Witness ==
    /\ vsOut # <<>>
    /\ vsIn.uProgress = <<500, 1000>>
    /\ vsIn.aRandom = <<0, 999>>
    /\ vsOut[1][1] > vsOut[1][2]
    /\ vsOut[1][2] > 0
    /\ vsOut[1][1] < vsOut[2][1]
    /\ vsOut[2][2] = 1000

----------------------------------------------------------------------------
(* Claims about Ornaments *)

Positions(mesh) ==
    [i \in 1..Len(mesh.instanceMatrix) |-> mesh.instanceMatrix[i].position]

\* C3: a frame with delta = 0 leaves every instance's position as it was,
\* and a second frame with delta = 0 at the same elapsed time and mode
\* leaves every written transform (position, rotation, scale) as the first
\* left it.
C3_IdempotentAtZeroDelta ==
    [][(IsFrame /\ FrameDelta = 0)
          => /\ Positions(ballsMesh') = Positions(ballsMesh)
             /\ Positions(giftsMesh') = Positions(giftsMesh)
             /\ Positions(lightsMesh') = Positions(lightsMesh)
             /\ lastDelta = 0 =>
                   /\ ballsMesh'.instanceMatrix = ballsMesh.instanceMatrix
                   /\ giftsMesh'.instanceMatrix = giftsMesh.instanceMatrix
                   /\ lightsMesh'.instanceMatrix = lightsMesh.instanceMatrix
       ]_vars

\* instance i of the mesh carries the colour of the i-th entry of data
ColoursWritten(mesh, data) ==
    \A i \in 1..Len(data) :
        /\ mesh.hasInstanceColor
        /\ i <= Len(mesh.instanceColor)
        /\ mesh.instanceColor[i] = data[i].color

\* C5: whatever the count and the category draws, also when a category
\* receives no instance, the creation-time colour write ends without an
\* error and every instance then carries its data entry's colour.
C5_NoErrorAtCreation ==
    (ballsRef /\ giftsRef /\ lightsRef)
        => /\ ~ornError
           /\ ColoursWritten(ballsMesh, ballsData)
           /\ ColoursWritten(giftsMesh, giftsData)
           /\ ColoursWritten(lightsMesh, lightsData)

Colours(mesh) == <<mesh.hasInstanceColor, mesh.instanceColor>>

\* C7: a frame leaves every instance's data (colour, chaos and target
\* position, scale, speed, rotation offset) and every colour stored in a
\* mesh unchanged; only the step that commits the component, which runs the
\* creation-time effect, writes colours.
C7_FrameChangesOnlyTransforms ==
    [][/\ IsFrame =>
             /\ ballsData' = ballsData
             /\ giftsData' = giftsData
             /\ lightsData' = lightsData
             /\ Colours(ballsMesh') = Colours(ballsMesh)
             /\ Colours(giftsMesh') = Colours(giftsMesh)
             /\ Colours(lightsMesh') = Colours(lightsMesh)
       /\ (\/ Colours(ballsMesh') # Colours(ballsMesh)
           \/ Colours(giftsMesh') # Colours(giftsMesh)
           \/ Colours(lightsMesh') # Colours(lightsMesh))
             => (~ballsRef /\ ballsRef')
      ]_vars

\* C7's case: colours are written and a frame has since moved an instance
C7_Witness ==
    /\ ballsRef /\ ~ornError
    /\ lastDelta > 0
    /\ Len(ballsData) > 0
    /\ ballsMesh.instanceColor[1] = ballsData[1].color
    /\ ballsMesh.instanceMatrix[1].position # <<0, 0, 0>>

\* the position the claim gives instance d from position old: moved by the
\* fraction delta * speed (in quarters) of the offset to the destination
C9_Interpolated(d, old, delta) ==
    LET dest == IF mode = FORMED THEN d.targetPos ELSE d.chaosPos
    IN  [k \in 1..3 |-> old[k] + (((dest[k] - old[k]) * delta * d.speed) \div 4)]

\* p is within 0.5 of q
C9_Within(p, q) ==
    /\ \A k \in 1..3 : Abs(p[k] - q[k]) < 25000
    /\ (p[1] - q[1]) * (p[1] - q[1]) + (p[2] - q[2]) * (p[2] - q[2])
          + (p[3] - q[3]) * (p[3] - q[3]) < 625000000

C9_Mesh(mesh, meshAfter, data) ==
    \A i \in 1..Len(data) :
        LET d == data[i]
            interp == C9_Interpolated(d, mesh.instanceMatrix[i].position,
                                      FrameDelta)
            new == meshAfter.instanceMatrix[i].position
            bob == Sin(2 * elapsedTime' + (d.chaosPos[1] \div 25000))
        IN  /\ new[1] = interp[1]
            /\ new[3] = interp[3]
            /\ new[2] - interp[2] =
                  (IF mode = FORMED /\ C9_Within(interp, d.targetPos)
                   THEN bob ELSE 0)
            /\ mode = SCATTERED => new = interp

\* C9: in a frame every instance's position moves from where it was toward
\* targetPos (formed) or chaosPos (scattered) by the fraction delta * speed
\* of the offset; the bobbing offset is added to y exactly when the mode is
\* formed and that position is within 0.5 of targetPos, so in scattered
\* mode the new position is the interpolated one.
C9_PositionStepAndBobbing ==
    [][(IsFrame /\ ballsRef /\ ~ornError)
          => /\ C9_Mesh(ballsMesh, ballsMesh', ballsData)
             /\ C9_Mesh(giftsMesh, giftsMesh', giftsData)
             /\ C9_Mesh(lightsMesh, lightsMesh', lightsData)
      ]_vars

\* C9's case: a frame in formed mode has put a ball at its target and
\* bobbed it off the target's height
C9_Witness ==
    /\ ballsRef /\ ~ornError /\ mode = FORMED /\ lastDelta > 0
    /\ Len(ballsData) > 0
    /\ ballsMesh.instanceMatrix[1].position[1] = ballsData[1].targetPos[1]
    /\ ballsMesh.instanceMatrix[1].position[3] = ballsData[1].targetPos[3]
    /\ ballsMesh.instanceMatrix[1].position[2] # ballsData[1].targetPos[2]

----------------------------------------------------------------------------
(* Claims about the scene of both components *)

\* C4: a frame in which the foliage mesh handle is absent changes neither
\* progress, uProgress nor uTime; a frame in which a category's mesh handle
\* is absent leaves that category's mesh (its transforms and its
\* needsUpdate flag) and data as they were; and no frame raises an error.
C4_AbsentHandleSkipsUpdate ==
    [][IsFrame =>
          /\ ~meshRef => /\ progressRef' = progressRef
                         /\ uProgress' = uProgress
                         /\ uTime' = uTime
          /\ ~ballsRef => (ballsMesh' = ballsMesh /\ ballsData' = ballsData)
          /\ ~giftsRef => (giftsMesh' = giftsMesh /\ giftsData' = giftsData)
          /\ ~lightsRef => (lightsMesh' = lightsMesh /\ lightsData' = lightsData)
          /\ ornError' = ornError
      ]_vars

\* C4's case: a frame with a positive delta has just run in formed mode
\* while no handle was attached, over points and instances that exist
C4_Witness ==
    /\ lastDelta > 0 /\ mode = FORMED
    /\ ~meshRef /\ ~ballsRef /\ ~giftsRef /\ ~lightsRef
    /\ fCount > 0
    /\ Len(ballsData) > 0 /\ Len(giftsData) > 0 /\ Len(lightsData) > 0
    /\ progressRef = Rat(0, 1) /\ uTime = 0
    /\ ballsMesh = InstancedMesh(Len(ballsData))

HasType(data, type) == \A i \in 1..Len(data) : data[i].type = type

\* what generation produced, in the terms of the claim
C6_Generated ==
    /\ Len(chaosPositions) = 3 * fCount
    /\ Len(targetPositions) = 3 * fCount
    /\ Len(randoms) = fCount
    /\ Len(rndLog) = oCount
    /\ Len(ballsData) + Len(giftsData) + Len(lightsData) = oCount
    /\ HasType(ballsData, "ball")
    /\ HasType(giftsData, "gift")
    /\ HasType(lightsData, "light")
    /\ Len(ballsData) = Cardinality({i \in 1..oCount : rndLog[i] <= 80})
    /\ Len(giftsData) =
          Cardinality({i \in 1..oCount : rndLog[i] > 80 /\ rndLog[i] <= 90})
    /\ Len(lightsData) = Cardinality({i \in 1..oCount : rndLog[i] > 90})
    /\ Len(ballsMesh.instanceMatrix) = Len(ballsData)
    /\ Len(giftsMesh.instanceMatrix) = Len(giftsData)
    /\ Len(lightsMesh.instanceMatrix) = Len(lightsData)

Types(data) == [i \in 1..Len(data) |-> data[i].type]

\* C6: for every count N generation gives N foliage entries (3N chaos and
\* 3N target coordinates, N randoms) and N ornament instances, each in the
\* list of its own type (draw <= 0.8 ball, 0.8 < draw <= 0.9 gift,
\* draw > 0.9 light), the three lengths summing to N; no frame, mode switch
\* or commit changes a length or a type.
C6_CountsAndCategoriesFixed ==
    /\ []C6_Generated
    /\ [][/\ fCount' = fCount /\ oCount' = oCount
          /\ Len(chaosPositions') = Len(chaosPositions)
          /\ Len(targetPositions') = Len(targetPositions)
          /\ Len(randoms') = Len(randoms)
          /\ Types(ballsData') = Types(ballsData)
          /\ Types(giftsData') = Types(giftsData)
          /\ Types(lightsData') = Types(lightsData)]_vars

\* C6's case: three points and one instance of each type, the draws on the
\* thresholds, after frames in both modes have moved the ball
C6_Witness ==
    /\ fCount = 3 /\ oCount = 3
    /\ rndLog = <<80, 90, 95>>
    /\ Len(ballsData) = 1 /\ Len(giftsData) = 1 /\ Len(lightsData) = 1
    /\ ballsRef /\ ~ornError
    /\ frames >= 2 /\ mode = SCATTERED
    /\ ballsMesh.instanceMatrix[1].position[1] = ballsData[1].targetPos[1]

====
